---------------------------- MODULE Spec2Model ----------------------------
(***************************************************************************)
(* A model of src/tools.py: the WikipediaAgent retrieval operations, the   *)
(* two text-cleaning transforms, the batch helpers and the PowerPointTool. *)
(*                                                                         *)
(* A Python str is modelled as a sequence of one-character strings, so     *)
(* that re.sub, str.replace, str.strip and str.join are computed on        *)
(* characters as the code computes them.                                   *)
(***************************************************************************)
EXTENDS Integers, Sequences, FiniteSets, TLC

VARIABLES
    html,       \* text spec: the input string of the transform
    text,       \* text spec: [stage, out, again] results of the transform
    call,       \* wiki spec: the last public WikipediaAgent call and its result
    batch,      \* wiki spec: the running batch helper (loop position, results)
    prs,        \* ppt spec: self.prs, the in-memory Presentation (its slides)
    files,      \* ppt spec: the file system, path -> persisted deck
    hist,       \* ppt spec: the last slide-building call on self.prs
    ret,        \* ppt spec: the last other PowerPointTool call and its result
    saved       \* ppt spec: history, what the introspection calls gave when
                \* save_presentation was last called

vars == <<html, text, call, batch, prs, files, hist, ret, saved>>

(***************************************************************************)
(* Bounds of the model                                                     *)
(***************************************************************************)
MaxHtmlPieces == 5
MaxSnippetPieces == 3
MaxTopics == 2
MaxSlides == 2

(***************************************************************************)
(* Strings                                                                 *)
(***************************************************************************)
\* str.join(sep, parts) for a one-character separator
RECURSIVE Join(_, _)
Join(parts, sep) ==
    IF parts = <<>> THEN <<>>
    ELSE IF Len(parts) = 1 THEN parts[1]
    ELSE parts[1] \o <<sep>> \o Join(Tail(parts), sep)

\* the concatenation of a sequence of strings
RECURSIVE Concat(_)
Concat(parts) ==
    IF parts = <<>> THEN <<>> ELSE Head(parts) \o Concat(Tail(parts))

\* all sequences over S of length 0..n
SeqsUpTo(S, n) == UNION {[1..k -> S] : k \in 0..n}

Contains(s, c) == \E i \in 1..Len(s) : s[i] = c

\* Python's \s on the characters the model uses
IsSpace(c) == c \in {" ", "\t", "\n", "\r"}

\* Python's \d on the characters the model uses
IsDigit(c) == c \in {"0", "1", "2", "3", "4", "5", "6", "7", "8", "9"}

\* the index of the first c in s at or after position i, 0 when there is none
RECURSIVE IndexFrom(_, _, _)
IndexFrom(s, c, i) ==
    IF i > Len(s) THEN 0
    ELSE IF s[i] = c THEN i
    ELSE IndexFrom(s, c, i + 1)

\* re.sub(r'<[^>]+>', '', s): leftmost non-overlapping matches; a match at a
\* '<' needs one character other than '>' and then runs to the first '>'
RECURSIVE ReSubTags(_)
ReSubTags(s) ==
    IF s = <<>> THEN <<>>
    ELSE IF /\ Head(s) = "<"
            /\ Len(s) >= 3
            /\ s[2] # ">"
            /\ IndexFrom(s, ">", 3) # 0
         THEN ReSubTags(SubSeq(s, IndexFrom(s, ">", 3) + 1, Len(s)))
         ELSE <<Head(s)>> \o ReSubTags(Tail(s))

\* the length of the run of characters satisfying \s at the head of s
RECURSIVE SpaceRun(_)
SpaceRun(s) ==
    IF s # <<>> /\ IsSpace(Head(s)) THEN 1 + SpaceRun(Tail(s)) ELSE 0

\* re.sub(r'\s+', ' ', s)
RECURSIVE ReSubSpaces(_)
ReSubSpaces(s) ==
    IF s = <<>> THEN <<>>
    ELSE IF IsSpace(Head(s))
         THEN <<" ">> \o ReSubSpaces(SubSeq(s, SpaceRun(s) + 1, Len(s)))
         ELSE <<Head(s)>> \o ReSubSpaces(Tail(s))

\* the length of the run of digits at the head of s
RECURSIVE DigitRun(_)
DigitRun(s) ==
    IF s # <<>> /\ IsDigit(Head(s)) THEN 1 + DigitRun(Tail(s)) ELSE 0

\* a variant of RefAtHead for the pattern r'\[\d\]': one digit only
RefAtHeadOneDigit(s) ==
    /\ Len(s) >= 3
    /\ s[1] = "["
    /\ IsDigit(s[2])
    /\ s[3] = "]"

\* whether r'\[\d+\]' matches at the head of s
RefAtHead(s) ==
    /\ s # <<>>
    /\ Head(s) = "["
    /\ DigitRun(Tail(s)) >= 1
    /\ Len(s) >= DigitRun(Tail(s)) + 2
    /\ s[DigitRun(Tail(s)) + 2] = "]"

\* re.sub(r'\[\d+\]', '', s)
RECURSIVE ReSubRefs(_)
ReSubRefs(s) ==
    IF s = <<>> THEN <<>>
    ELSE IF RefAtHead(s)
         THEN ReSubRefs(SubSeq(s, DigitRun(Tail(s)) + 3, Len(s)))
         ELSE <<Head(s)>> \o ReSubRefs(Tail(s))

\* str.strip()
RECURSIVE LStrip(_)
LStrip(s) ==
    IF s # <<>> /\ IsSpace(Head(s)) THEN LStrip(Tail(s)) ELSE s

RECURSIVE RStrip(_)
RStrip(s) ==
    IF s # <<>> /\ IsSpace(s[Len(s)]) THEN RStrip(SubSeq(s, 1, Len(s) - 1)) ELSE s

Strip(s) == RStrip(LStrip(s))

\* whether pat is a prefix of s
StartsWith(s, pat) ==
    /\ Len(s) >= Len(pat)
    /\ SubSeq(s, 1, Len(pat)) = pat

\* str.replace(pat, rep): leftmost non-overlapping occurrences of pat
RECURSIVE Replace(_, _, _)
Replace(s, pat, rep) ==
    IF s = <<>> THEN <<>>
    ELSE IF StartsWith(s, pat)
         THEN rep \o Replace(SubSeq(s, Len(pat) + 1, Len(s)), pat, rep)
         ELSE <<Head(s)>> \o Replace(Tail(s), pat, rep)

\* WikipediaAgent._extract_text_from_html
extract_text_from_html(h) ==
    Strip(ReSubRefs(ReSubSpaces(ReSubTags(h))))

QUOT == <<"&", "q", "u", "o", "t", ";">>
AMP == <<"&", "a", "m", "p", ";">>
LT == <<"&", "l", "t", ";">>
GT == <<"&", "g", "t", ";">>

\* a variant of _clean_html that decodes the entities and leaves the tags
clean_html_keeps_tags(s) ==
    Strip(Replace(Replace(Replace(Replace(s,
        QUOT, <<"\"">>), AMP, <<"&">>), LT, <<"<">>), GT, <<">">>))

\* WikipediaAgent._clean_html
clean_html(s) ==
    Strip(Replace(Replace(Replace(Replace(ReSubTags(s),
        QUOT, <<"\"">>), AMP, <<"&">>), LT, <<"<">>), GT, <<">">>))


(***************************************************************************)
(* WikipediaAgent: the remote source                                       *)
(*                                                                         *)
(* Each requests.get ends in one of four ways: "ok" (status 200 and a      *)
(* well-formed body), "notfound" (status 404), "httperr" (another error    *)
(* status, which raise_for_status turns into requests.HTTPError) and       *)
(* "transport" (requests.get itself raises a requests.RequestException).   *)
(***************************************************************************)
Outcomes == {"ok", "notfound", "httperr", "transport"}

\* the page titles of the model; quote() leaves their characters as they are
Titles == {"A", "B"}

language == "en"

\* the url both search and get_page build for a title
PageUrl(title) == <<"https://", language, ".wikipedia.org/wiki/", title>>

\* the bodies the source answers with for a title
HtmlOf(title) == <<"<", "p", ">", title, " ", "[", "1", "]", "<", "/", "p", ">">>
ExtractOf(title) == <<"About ", title>>
CategoriesOf(title) == << <<"Category:", "Cat of ", title>> >>
LinksOf(title) == << <<"Link of ", title>> >>

NoPage ==
    [title |-> "", content |-> <<>>, url |-> <<>>, summary |-> <<>>,
     categories |-> <<>>, links |-> <<>>]

\* what a call gives back: kind is "raise" (an Exception reaches the caller),
\* "none" (None), "page", "str" or "list"
Raised == [kind |-> "raise", page |-> NoPage, str |-> <<>>, list |-> <<>>]
None == [kind |-> "none", page |-> NoPage, str |-> <<>>, list |-> <<>>]
PageResult(p) == [kind |-> "page", page |-> p, str |-> <<>>, list |-> <<>>]
StrResult(s) == [kind |-> "str", page |-> NoPage, str |-> s, list |-> <<>>]
ListResult(l) == [kind |-> "list", page |-> NoPage, str |-> <<>>, list |-> l]

\* response.raise_for_status() after requests.get: whether a
\* requests.RequestException is raised
RequestFails(outcome) == outcome # "ok"

\* WikipediaAgent.search on a response whose items are (title, raw snippet)
search(outcome, items) ==
    IF RequestFails(outcome) THEN Raised
    ELSE ListResult([i \in 1..Len(items) |->
            [title |-> items[i].title,
             snippet |-> clean_html(items[i].snippet),
             url |-> PageUrl(items[i].title)]])

\* WikipediaAgent._get_page_links
get_page_links(title, outcome) ==
    IF RequestFails(outcome) THEN <<>> ELSE LinksOf(title)

\* WikipediaAgent._get_page_categories
get_page_categories(title, outcome) ==
    IF RequestFails(outcome) THEN <<>>
    ELSE [i \in 1..Len(CategoriesOf(title)) |->
            Replace(CategoriesOf(title)[i], <<"Category:">>, <<>>)]

\* a variant of get_page that calls raise_for_status before it looks at the
\* status code, so that a 404 raises as every other error status does
get_page_raises_on_404(title, include_links, env) ==
    IF env.content # "ok" THEN Raised
    ELSE IF env.summary = "transport" THEN Raised
    ELSE PageResult(
            [title |-> title,
             content |-> extract_text_from_html(HtmlOf(title)),
             url |-> PageUrl(title),
             summary |-> IF env.summary = "ok" THEN ExtractOf(title) ELSE <<>>,
             categories |-> get_page_categories(title, env.categories),
             links |-> IF include_links
                       THEN get_page_links(title, env.links) ELSE <<>>])

\* WikipediaAgent.get_page; env gives the outcome of each of the four requests
get_page(title, include_links, env) ==
    IF env.content = "transport" THEN Raised
    ELSE IF env.content = "notfound" THEN None
    ELSE IF env.content = "httperr" THEN Raised
    ELSE IF env.summary = "transport" THEN Raised
    ELSE PageResult(
            [title |-> title,
             content |-> extract_text_from_html(HtmlOf(title)),
             url |-> PageUrl(title),
             summary |-> IF env.summary = "ok" THEN ExtractOf(title) ELSE <<>>,
             categories |-> get_page_categories(title, env.categories),
             links |-> IF include_links
                       THEN get_page_links(title, env.links) ELSE <<>>])

\* the requests get_page makes under env, in order: the ones after a raise or
\* a return are not made
RequestsMade(include_links, env) ==
    [content |-> env.content,
     summary |-> IF env.content = "ok" THEN env.summary ELSE "unsent",
     categories |-> IF env.content = "ok" /\ env.summary # "transport"
                    THEN env.categories ELSE "unsent",
     links |-> IF env.content = "ok" /\ env.summary # "transport" /\ include_links
               THEN env.links ELSE "unsent",
     api |-> "unsent"]

\* WikipediaAgent.get_summary; exists: the source's page id is not "-1"
get_summary(title, outcome, exists) ==
    IF RequestFails(outcome) THEN Raised
    ELSE IF exists THEN StrResult(ExtractOf(title))
    ELSE None

\* WikipediaAgent.get_random_page; pages: the "random" list of the answer
get_random_page(outcome, pages) ==
    IF RequestFails(outcome) THEN Raised
    ELSE IF pages # <<>> THEN StrResult(<<pages[1]>>)
    ELSE None


(***************************************************************************)
(* PowerPointTool                                                          *)
(*                                                                         *)
(* self.prs is modelled by its slides, a slide by its layout and its       *)
(* shapes, a shape by whether it has a text frame and by the paragraphs of *)
(* that frame. The python-pptx objects are views on the XML parts that     *)
(* Presentation.save writes and Presentation(path) reads back, so the file *)
(* system maps a path to the deck that was written there. Titles, points   *)
(* and other texts of the model hold no line break.                        *)
(***************************************************************************)
NL == "\n"

EmptyParagraph == [text |-> <<>>, level |-> 0]

\* a placeholder of a new slide: a text frame with one empty paragraph
Placeholder(name) == [name |-> name, has_text |-> TRUE, paras |-> <<EmptyParagraph>>]

\* shape.text = value, for a value without line breaks
SetText(shape, value) ==
    [shape EXCEPT !.paras = <<[text |-> value, level |-> 0]>>]

\* shape.text: the paragraphs' texts joined by "\n"
ShapeText(shape) ==
    Join([i \in 1..Len(shape.paras) |-> shape.paras[i].text], NL)

\* PowerPointTool.create_new_presentation, and __init__: Presentation()
create_new_presentation == <<>>

\* os.path.exists
Exists(fs, path) == \E k \in 1..Len(fs) : fs[k].path = path

FileAt(fs, path) == fs[CHOOSE k \in 1..Len(fs) : fs[k].path = path].deck

\* a variant of load_presentation that falls back to Presentation() when the
\* file is missing
load_presentation_resets(p, fs, file_path) ==
    IF Exists(fs, file_path) THEN FileAt(fs, file_path) ELSE <<>>

\* PowerPointTool.load_presentation: the new value of self.prs
load_presentation(p, fs, file_path) ==
    IF Exists(fs, file_path) THEN FileAt(fs, file_path) ELSE p

\* a variant of save_presentation that does not overwrite an existing file
save_presentation_keeps_first(fs, p, filename) ==
    IF Exists(fs, filename) THEN fs
    ELSE Append(fs, [path |-> filename, deck |-> p])

\* PowerPointTool.save_presentation: the file system after self.prs.save
save_presentation(fs, p, filename) ==
    IF Exists(fs, filename)
    THEN [k \in 1..Len(fs) |->
            IF fs[k].path = filename THEN [path |-> filename, deck |-> p]
            ELSE fs[k]]
    ELSE Append(fs, [path |-> filename, deck |-> p])

\* PowerPointTool.add_title_slide
add_title_slide(p, title, subtitle) ==
    Append(p, [layout |-> 0,
               shapes |-> <<SetText(Placeholder("title"), title),
                            SetText(Placeholder("subtitle"), subtitle)>>])

\* a variant of FillParagraphs that writes every point to paragraphs[0]
FillParagraphsFirstOnly(content_points) ==
    IF content_points = <<>> THEN <<EmptyParagraph>>
    ELSE <<[text |-> content_points[Len(content_points)], level |-> 0]>>

\* text_frame.clear() and the loop over content_points of add_content_slide:
\* the first point goes to the paragraph clear() left, the others to added ones
FillParagraphs(content_points) ==
    IF content_points = <<>> THEN <<EmptyParagraph>>
    ELSE [i \in 1..Len(content_points) |->
            [text |-> content_points[i], level |-> 0]]

\* PowerPointTool.add_content_slide
add_content_slide(p, title, content_points) ==
    Append(p, [layout |-> 1,
               shapes |-> <<SetText(Placeholder("title"), title),
                            [Placeholder("content") EXCEPT
                                !.paras = FillParagraphs(content_points)]>>])

\* a variant of add_blank_slide that puts the new slide first
add_blank_slide_first(p) == <<[layout |-> 6, shapes |-> <<>>]>> \o p

\* PowerPointTool.add_blank_slide
add_blank_slide(p) == Append(p, [layout |-> 6, shapes |-> <<>>])

\* PowerPointTool.add_text_box on slide k of self.prs: add_textbox(...) and
\* text_frame.text = text for a text without line breaks; left, top, width and
\* height place the box
add_text_box(p, k, box_text) ==
    [p EXCEPT ![k].shapes =
        Append(@, [name |-> "textbox", has_text |-> TRUE,
                   paras |-> <<[text |-> box_text, level |-> 0]>>])]

\* width or height as the caller left it out (None); 0 is as falsy as None
Absent == 0

\* PowerPointTool.add_image on slide k of self.prs; exists is
\* os.path.exists(image_path). A picture has no text attribute; its name
\* records which of the two add_picture calls made it
add_image(p, k, exists, width, height) ==
    IF ~exists THEN p
    ELSE [p EXCEPT ![k].shapes =
            Append(@, [name |-> IF width # Absent /\ height # Absent
                                THEN "picture sized" ELSE "picture native",
                       has_text |-> FALSE, paras |-> <<>>])]

\* the font format_text gives a run: font.color.rgb is set only for a truthy
\* color, so a run keeps the color it had
FontOf(para, font) ==
    IF font.color # <<>> THEN font
    ELSE [font EXCEPT !.color =
            IF "font" \in DOMAIN para THEN para.font.color ELSE <<>>]

\* a paragraph has one run when its text is not empty and none otherwise
FormatParagraph(para, font) ==
    IF para.text = <<>> THEN para
    ELSE [text |-> para.text, level |-> para.level, font |-> FontOf(para, font)]

\* PowerPointTool.format_text on the text frame of shape j of slide k
format_text(p, k, j, font) ==
    [p EXCEPT ![k].shapes[j].paras =
        [i \in 1..Len(@) |-> FormatParagraph(@[i], font)]]

\* PowerPointTool.set_slide_background_color on slide k, for a triple of bytes
set_slide_background_color(p, k, rgb_color) ==
    [p EXCEPT ![k] =
        [layout |-> @.layout, shapes |-> @.shapes,
         background |-> [fill |-> "solid", fore_color |-> rgb_color]]]

\* PowerPointTool.get_slide_count
get_slide_count(p) == Len(p)

\* the texts of the shapes of a slide that have a text attribute
ShapeTexts(slide) ==
    LET withText == SelectSeq(slide.shapes, LAMBDA sh : sh.has_text)
    IN [i \in 1..Len(withText) |-> ShapeText(withText[i])]

Sentinel ==
    <<"S", "l", "i", "d", "e", " ", "i", "n", "d", "e", "x", " ", "o", "u", "t",
      " ", "o", "f", " ", "r", "a", "n", "g", "e">>

\* the result of a call that builds no slide; kind is "none", "text" (a str),
\* "raise", "count" or "all"
NoRet == [op |-> "none", index |-> 0, path |-> "", found |-> FALSE,
          kind |-> "none", text |-> <<>>, count |-> 0, all |-> <<>>]

\* PowerPointTool.get_slide_text; self.prs.slides[slide_index] indexes as a
\* Python sequence: a negative index counts from the end, and an index below
\* -len raises IndexError
get_slide_text(p, slide_index) ==
    IF slide_index >= Len(p)
    THEN [NoRet EXCEPT !.op = "get_slide_text", !.index = slide_index,
                       !.kind = "text", !.text = Sentinel]
    ELSE IF slide_index < -Len(p)
    THEN [NoRet EXCEPT !.op = "get_slide_text", !.index = slide_index,
                       !.kind = "raise"]
    ELSE [NoRet EXCEPT
            !.op = "get_slide_text", !.index = slide_index, !.kind = "text",
            !.text = Join(ShapeTexts(
                        p[(IF slide_index < 0 THEN Len(p) + slide_index
                           ELSE slide_index) + 1]), NL)]

\* PowerPointTool.extract_all_text: entry i is the value at key "Slide i"
extract_all_text(p) ==
    [i \in 1..Len(p) |->
        SelectSeq(ShapeTexts(p[i]), LAMBDA t : Strip(t) # <<>>)]

(***************************************************************************)
(* The text transforms as a state machine: the input is drawn in Init,     *)
(* then the transform is applied, and applied again to its own output      *)
(***************************************************************************)
\* the substrings the inputs of _extract_text_from_html are built from
HtmlPieces ==
    {<<"<">>, <<">">>, <<"[">>, <<"]">>, <<"1">>, <<" ">>, <<"a">>,
     <<"[", "1", "]">>}

HtmlInputs == {Concat(ps) : ps \in SeqsUpTo(HtmlPieces, MaxHtmlPieces)}

\* the substrings the raw snippets of the search endpoint are built from
SnippetPieces ==
    {<<"<">>, <<">">>, <<"b">>, <<" ">>, <<"&">>, LT, GT, AMP, QUOT,
     <<"l", "t", ";">>, <<"<", "b", ">">>}

SnippetInputs == {Concat(ps) : ps \in SeqsUpTo(SnippetPieces, MaxSnippetPieces)}

Unsent ==
    [content |-> "unsent", summary |-> "unsent", categories |-> "unsent",
     links |-> "unsent", api |-> "unsent"]

\* one request to the query api (api.php)
ApiRequest(outcome) == [Unsent EXCEPT !.api = outcome]

NoCall == [op |-> "none", title |-> "", include_links |-> FALSE,
           req |-> Unsent, result |-> None]

NoBatch == [helper |-> "none", pc |-> "idle", items |-> <<>>, i |-> 1,
            out |-> <<>>, log |-> <<>>, raisedAt |-> "none"]

NoHist == [op |-> "none", title |-> <<>>, points |-> <<>>]

\* the state of a PowerPointTool after __init__, with no file written
PptIdle ==
    /\ prs = <<>>
    /\ files = <<>>
    /\ hist = NoHist
    /\ ret = NoRet
    /\ saved = [count |-> 0, all |-> <<>>]

WikiIdle ==
    /\ call = NoCall
    /\ batch = NoBatch

TextIdle == text = [stage |-> "input", out |-> <<>>, again |-> <<>>]

pptVars == <<prs, files, hist, ret, saved>>
wikiVars == <<call, batch>>

\* html_content -> plain_text, as get_page computes PageRecord.content
ExtractText ==
    /\ text.stage = "input"
    /\ text' = [stage |-> "extracted", out |-> extract_text_from_html(html),
                again |-> <<>>]
    /\ UNCHANGED <<html, wikiVars, pptVars>>

\* the transform applied to its own output
ExtractAgain ==
    /\ text.stage = "extracted"
    /\ text' = [text EXCEPT !.stage = "again",
                            !.again = extract_text_from_html(text.out)]
    /\ UNCHANGED <<html, wikiVars, pptVars>>

InitText ==
    /\ html \in HtmlInputs
    /\ TextIdle
    /\ WikiIdle
    /\ PptIdle

NextText == ExtractText \/ ExtractAgain

SpecText == InitText /\ [][NextText]_vars

\* search() on an answer of the search endpoint whose one item has the raw
\* snippet html
SearchSnippet ==
    /\ call.op = "none"
    /\ \E t \in Titles :
          call' = [op |-> "search", title |-> "", include_links |-> FALSE,
                   req |-> ApiRequest("ok"),
                   result |-> search("ok", <<[title |-> t, snippet |-> html]>>)]
    /\ UNCHANGED <<html, text, batch, pptVars>>

InitSnippet ==
    /\ html \in SnippetInputs
    /\ TextIdle
    /\ WikiIdle
    /\ PptIdle

NextSnippet == SearchSnippet

SpecSnippet == InitSnippet /\ [][NextSnippet]_vars


(***************************************************************************)
(* WikipediaAgent and the batch helpers as a state machine. The caller is  *)
(* single-threaded: while a batch helper runs, no other call is made. The  *)
(* agent keeps no state between calls, so the order of the calls changes   *)
(* no result: the model makes the direct calls before the first batch      *)
(* helper runs, and then runs batch helpers one after the other.           *)
(***************************************************************************)
\* the outcomes of the four requests of one get_page
Envs == [content : Outcomes, summary : Outcomes, categories : Outcomes,
         links : Outcomes]

\* the raw snippet the search endpoint sends for a title
RawSnippetOf(title) == <<"<", "b", ">", title, "<", "/", "b", ">", "&", "l", "t", ";">>

\* the items of an answer of the search endpoint
SearchAnswers ==
    {[i \in 1..Len(ts) |-> [title |-> ts[i], snippet |-> RawSnippetOf(ts[i])]] :
        ts \in SeqsUpTo(Titles, MaxTopics)}

GetPageCall(title, include_links, env) ==
    [op |-> "get_page", title |-> title, include_links |-> include_links,
     req |-> RequestsMade(include_links, env),
     result |-> get_page(title, include_links, env)]

GetSummaryCall(title, outcome, exists) ==
    [op |-> "get_summary", title |-> title, include_links |-> FALSE,
     req |-> ApiRequest(outcome), result |-> get_summary(title, outcome, exists)]

SearchCall(outcome, items) ==
    [op |-> "search", title |-> "", include_links |-> FALSE,
     req |-> ApiRequest(outcome), result |-> search(outcome, items)]

Direct == batch.helper = "none"

\* no batch helper is running
BatchFree == batch.pc # "loop"

Search ==
    /\ Direct
    /\ call' \in {SearchCall(outcome, items) :
                    outcome \in Outcomes, items \in SearchAnswers}
    /\ UNCHANGED <<html, text, batch, pptVars>>

GetPage ==
    /\ Direct
    /\ call' \in {GetPageCall(title, include_links, env) :
                    title \in Titles, include_links \in BOOLEAN, env \in Envs}
    /\ UNCHANGED <<html, text, batch, pptVars>>

GetSummary ==
    /\ Direct
    /\ \E title \in Titles, outcome \in Outcomes, exists \in BOOLEAN :
          call' = GetSummaryCall(title, outcome, exists)
    /\ UNCHANGED <<html, text, batch, pptVars>>

GetRandomPage ==
    /\ Direct
    /\ \E outcome \in Outcomes, pages \in SeqsUpTo(Titles, 1) :
          call' = [op |-> "get_random_page", title |-> "",
                   include_links |-> FALSE, req |-> ApiRequest(outcome),
                   result |-> get_random_page(outcome, pages)]
    /\ UNCHANGED <<html, text, batch, pptVars>>

\* WikipediaAgent.get_page_links
GetPageLinks ==
    /\ Direct
    /\ \E title \in Titles, outcome \in Outcomes :
          call' = [op |-> "get_page_links", title |-> title,
                   include_links |-> FALSE, req |-> ApiRequest(outcome),
                   result |-> ListResult(get_page_links(title, outcome))]
    /\ UNCHANGED <<html, text, batch, pptVars>>

\* WikipediaAgent.get_page_categories
GetPageCategories ==
    /\ Direct
    /\ \E title \in Titles, outcome \in Outcomes :
          call' = [op |-> "get_page_categories", title |-> title,
                   include_links |-> FALSE, req |-> ApiRequest(outcome),
                   result |-> ListResult(get_page_categories(title, outcome))]
    /\ UNCHANGED <<html, text, batch, pptVars>>

\* knowledge_base[topic] = page on a dict kept as its (key, value) pairs in
\* insertion order
DictPut(d, key, value) ==
    IF \E k \in 1..Len(d) : d[k].key = key
    THEN [k \in 1..Len(d) |->
            IF d[k].key = key THEN [key |-> key, value |-> value] ELSE d[k]]
    ELSE Append(d, [key |-> key, value |-> value])

\* create_knowledge_base: knowledge_base = {} and the entry of the loop
KbStart ==
    /\ BatchFree
    /\ \E topics \in SeqsUpTo(Titles, MaxTopics) :
          batch' = [NoBatch EXCEPT !.helper = "create_knowledge_base",
                                   !.pc = "loop", !.items = topics]
    /\ UNCHANGED <<html, text, call, pptVars>>

\* create_knowledge_base: one pass of the loop body, with its try/except
KbStep ==
    /\ batch.helper = "create_knowledge_base"
    /\ batch.pc = "loop"
    /\ batch.i <= Len(batch.items)
    /\ \E c \in {GetPageCall(batch.items[batch.i], TRUE, env) : env \in Envs} :
          /\ call' = c
          /\ batch' =
               [batch EXCEPT
                  !.i = @ + 1,
                  !.out = IF c.result.kind = "page"
                          THEN DictPut(@, c.title, c.result.page) ELSE @,
                  !.log = Append(@,
                     [msg |-> CASE c.result.kind = "page" -> "Added"
                                [] c.result.kind = "none" -> "Not found"
                                [] OTHER -> "Error with",
                      topic |-> c.title])]
    /\ UNCHANGED <<html, text, pptVars>>

\* create_knowledge_base: return knowledge_base
KbReturn ==
    /\ batch.helper = "create_knowledge_base"
    /\ batch.pc = "loop"
    /\ batch.i > Len(batch.items)
    /\ batch' = [batch EXCEPT !.pc = "returned"]
    /\ UNCHANGED <<html, text, call, pptVars>>

\* search_and_summarize: the search call and the entry of the loop
SasStart ==
    /\ BatchFree
    /\ \E c \in {SearchCall(outcome, items) :
                    outcome \in Outcomes, items \in SearchAnswers} :
          /\ call' = c
          /\ batch' =
               IF c.result.kind = "raise"
               THEN [NoBatch EXCEPT !.helper = "search_and_summarize",
                                    !.pc = "raised", !.raisedAt = "search"]
               ELSE [NoBatch EXCEPT !.helper = "search_and_summarize",
                                    !.pc = "loop", !.items = c.result.list]
    /\ UNCHANGED <<html, text, pptVars>>

\* search_and_summarize: one pass of the loop body
SasStep ==
    /\ batch.helper = "search_and_summarize"
    /\ batch.pc = "loop"
    /\ batch.i <= Len(batch.items)
    /\ \E c \in {GetSummaryCall(batch.items[batch.i].title, outcome, exists) :
                    outcome \in Outcomes, exists \in BOOLEAN} :
          /\ call' = c
          /\ batch' =
               IF c.result.kind = "raise"
               THEN [batch EXCEPT !.pc = "raised", !.raisedAt = "item"]
               ELSE [batch EXCEPT
                       !.i = @ + 1,
                       !.out = Append(@,
                          [title |-> batch.items[batch.i].title,
                           url |-> batch.items[batch.i].url,
                           summary |-> c.result,
                           snippet |-> batch.items[batch.i].snippet])]
    /\ UNCHANGED <<html, text, pptVars>>

\* search_and_summarize: return summaries
SasReturn ==
    /\ batch.helper = "search_and_summarize"
    /\ batch.pc = "loop"
    /\ batch.i > Len(batch.items)
    /\ batch' = [batch EXCEPT !.pc = "returned"]
    /\ UNCHANGED <<html, text, call, pptVars>>

InitWiki ==
    /\ html = <<>>
    /\ TextIdle
    /\ WikiIdle
    /\ PptIdle

NextWiki ==
    \/ Search
    \/ GetPage
    \/ GetSummary
    \/ GetRandomPage
    \/ GetPageLinks
    \/ GetPageCategories
    \/ KbStart
    \/ KbStep
    \/ KbReturn
    \/ SasStart
    \/ SasStep
    \/ SasReturn

SpecWiki == InitWiki /\ [][NextWiki]_vars


(***************************************************************************)
(* PowerPointTool as a state machine                                       *)
(***************************************************************************)
\* the paths of the model: DeckPath is written by save_presentation,
\* MissingPath never exists
DeckPath == "deck.pptx"
MissingPath == "missing.pptx"
Paths == {DeckPath, MissingPath}

SlideTitles == {<<"T">>}
SlideSubtitles == {<<"S">>}
PointLists == {<<>>, << <<"p">> >>, << <<"p">>, <<"q">> >>}

\* the record of a slide-building call
Built(op, title, points) == [op |-> op, title |-> title, points |-> points]

\* PowerPointTool(): a fresh tool
Construct ==
    /\ prs' = create_new_presentation
    /\ hist' = NoHist
    /\ ret' = NoRet
    /\ UNCHANGED <<html, text, wikiVars, files, saved>>

CreateNewPresentation ==
    /\ prs' = create_new_presentation
    /\ hist' = NoHist
    /\ ret' = [NoRet EXCEPT !.op = "create_new_presentation"]
    /\ UNCHANGED <<html, text, wikiVars, files, saved>>

LoadPresentation ==
    /\ \E file_path \in Paths :
          /\ prs' = load_presentation(prs, files, file_path)
          /\ hist' = IF Exists(files, file_path) THEN NoHist ELSE hist
          /\ ret' = [NoRet EXCEPT !.op = "load_presentation",
                                  !.path = file_path,
                                  !.found = Exists(files, file_path)]
    /\ UNCHANGED <<html, text, wikiVars, files, saved>>

SavePresentation ==
    /\ files' = save_presentation(files, prs, DeckPath)
    /\ ret' = [NoRet EXCEPT !.op = "save_presentation", !.path = DeckPath]
    /\ saved' = [count |-> get_slide_count(prs), all |-> extract_all_text(prs)]
    /\ UNCHANGED <<html, text, wikiVars, prs, hist>>

AddTitleSlide ==
    /\ Len(prs) < MaxSlides
    /\ \E title \in SlideTitles, subtitle \in SlideSubtitles :
          /\ prs' = add_title_slide(prs, title, subtitle)
          /\ hist' = Built("add_title_slide", title, <<>>)
    /\ ret' = NoRet
    /\ UNCHANGED <<html, text, wikiVars, files, saved>>

AddContentSlide ==
    /\ Len(prs) < MaxSlides
    /\ \E title \in SlideTitles, content_points \in PointLists :
          /\ prs' = add_content_slide(prs, title, content_points)
          /\ hist' = Built("add_content_slide", title, content_points)
    /\ ret' = NoRet
    /\ UNCHANGED <<html, text, wikiVars, files, saved>>

AddBlankSlide ==
    /\ Len(prs) < MaxSlides
    /\ prs' = add_blank_slide(prs)
    /\ hist' = Built("add_blank_slide", <<>>, <<>>)
    /\ ret' = NoRet
    /\ UNCHANGED <<html, text, wikiVars, files, saved>>

GetSlideCount ==
    /\ ret' = [NoRet EXCEPT !.op = "get_slide_count", !.kind = "count",
                            !.count = get_slide_count(prs)]
    /\ UNCHANGED <<html, text, wikiVars, prs, files, hist, saved>>

GetSlideText ==
    /\ \E slide_index \in (-(Len(prs) + 1))..(Len(prs) + 1) :
          ret' = get_slide_text(prs, slide_index)
    /\ UNCHANGED <<html, text, wikiVars, prs, files, hist, saved>>

ExtractAllText ==
    /\ ret' = [NoRet EXCEPT !.op = "extract_all_text", !.kind = "all",
                            !.all = extract_all_text(prs)]
    /\ UNCHANGED <<html, text, wikiVars, prs, files, hist, saved>>

InitPpt ==
    /\ html = <<>>
    /\ TextIdle
    /\ WikiIdle
    /\ PptIdle

NextPpt ==
    \/ Construct
    \/ CreateNewPresentation
    \/ LoadPresentation
    \/ SavePresentation
    \/ AddTitleSlide
    \/ AddContentSlide
    \/ AddBlankSlide
    \/ GetSlideCount
    \/ GetSlideText
    \/ ExtractAllText

SpecPpt == InitPpt /\ [][NextPpt]_vars

(***************************************************************************)
(* PowerPointTool with the operations on a slide handle: add_text_box,     *)
(* add_image, format_text and set_slide_background_color. The caller       *)
(* passes a slide of self.prs, which one of the add_*_slide calls returned *)
(* or self.prs.slides gives. What a session builds is bounded as a whole:  *)
(* files, slides, points, added shapes, backgrounds and formatted          *)
(* paragraphs, in self.prs and in the files together.                      *)
(***************************************************************************)
MaxSessionSize == 3

\* an image file of the file system, which the tool neither writes nor deletes
ImagePath == "pic.png"
ImagePaths == {ImagePath, MissingPath}

BoxTexts == {<<"x">>}
Dimensions == {Absent, 2}
Fonts ==
    {[name |-> "Calibri", size |-> 24, bold |-> TRUE, italic |-> TRUE,
      color |-> <<255, 0, 0>>]}
Colors == {<<0, 0, 255>>}

\* the shapes of a deck, as (slide, shape) index pairs
ShapesOf(p) ==
    UNION {{<<i, j>> : j \in 1..Len(p[i].shapes)} : i \in 1..Len(p)}

\* what a shape adds to a deck: itself when add_text_box or add_image put it
\* there, its points when it is the content of a content slide, and its
\* paragraphs that format_text gave a font
ShapeSize(shape) ==
    (IF shape.name \in {"textbox", "picture sized", "picture native"}
     THEN 1 ELSE 0)
    + Cardinality({n \in 1..Len(shape.paras) :
          shape.name = "content" /\ shape.paras[n].text # <<>>})
    + Cardinality({n \in 1..Len(shape.paras) :
          "font" \in DOMAIN shape.paras[n]})

RECURSIVE ShapesSize(_, _)
ShapesSize(shapes, j) ==
    IF j > Len(shapes) THEN 0
    ELSE ShapeSize(shapes[j]) + ShapesSize(shapes, j + 1)

\* a slide, its background when one was set, and its shapes
SlideSize(slide) ==
    1 + (IF "background" \in DOMAIN slide THEN 1 ELSE 0)
      + ShapesSize(slide.shapes, 1)

RECURSIVE SlidesSize(_, _)
SlidesSize(p, i) ==
    IF i > Len(p) THEN 0 ELSE SlideSize(p[i]) + SlidesSize(p, i + 1)

DeckSize(p) == SlidesSize(p, 1)

\* the files save_presentation wrote, and their decks
RECURSIVE FilesSize(_, _)
FilesSize(fs, k) ==
    IF k > Len(fs) THEN 0
    ELSE 1 + DeckSize(fs[k].deck) + FilesSize(fs, k + 1)

\* the deck of self.prs and the files, taken together
SessionBound == DeckSize(prs) + FilesSize(files, 1) <= MaxSessionSize

\* a call on a slide handle: self.prs after it, and whether it put something
\* on the slide
Edited(op, p, found) ==
    [p |-> p, ret |-> [NoRet EXCEPT !.op = op, !.found = found]]

AddTextBox ==
    /\ \E e \in {Edited("add_text_box", add_text_box(prs, slide, t), TRUE) :
                    slide \in 1..Len(prs), t \in BoxTexts} :
          /\ prs' = e.p
          /\ ret' = e.ret
    /\ hist' = NoHist
    /\ UNCHANGED <<html, text, wikiVars, files, saved>>

AddImage ==
    /\ \E e \in {Edited("add_image",
                         add_image(prs, slide, image_path = ImagePath, width, height),
                         image_path = ImagePath) :
                    slide \in 1..Len(prs), image_path \in ImagePaths,
                    width \in Dimensions, height \in Dimensions} :
          /\ prs' = e.p
          /\ ret' = e.ret
    /\ hist' = NoHist
    /\ UNCHANGED <<html, text, wikiVars, files, saved>>

\* the text frames of the slides of self.prs, as (slide, shape) index pairs
TextFrames(p) == {ij \in ShapesOf(p) : p[ij[1]].shapes[ij[2]].has_text}

FormatText ==
    /\ \E e \in {Edited("format_text", format_text(prs, ij[1], ij[2], font), TRUE) :
                    ij \in TextFrames(prs), font \in Fonts} :
          /\ prs' = e.p
          /\ ret' = e.ret
    /\ hist' = NoHist
    /\ UNCHANGED <<html, text, wikiVars, files, saved>>

SetSlideBackgroundColor ==
    /\ \E e \in {Edited("set_slide_background_color",
                         set_slide_background_color(prs, slide, rgb_color), TRUE) :
                    slide \in 1..Len(prs), rgb_color \in Colors} :
          /\ prs' = e.p
          /\ ret' = e.ret
    /\ hist' = NoHist
    /\ UNCHANGED <<html, text, wikiVars, files, saved>>

InitSlides ==
    /\ html = <<>>
    /\ TextIdle
    /\ WikiIdle
    /\ PptIdle

NextSlides ==
    \/ Construct
    \/ CreateNewPresentation
    \/ LoadPresentation /\ SessionBound'
    \/ SavePresentation /\ SessionBound'
    \/ AddTitleSlide /\ SessionBound'
    \/ AddContentSlide /\ SessionBound'
    \/ AddBlankSlide /\ SessionBound'
    \/ AddTextBox /\ SessionBound'
    \/ AddImage /\ SessionBound'
    \/ FormatText /\ SessionBound'
    \/ SetSlideBackgroundColor /\ SessionBound'
    \/ GetSlideCount
    \/ GetSlideText
    \/ ExtractAllText

SpecSlides == InitSlides /\ [][NextSlides]_vars

(***************************************************************************)
(* Claims: retrieval error handling (checked under SpecWiki)               *)
(***************************************************************************)
\* C1: whenever the content request of get_page succeeds, get_page returns a
\* PageRecord and raises nothing, however the summary, categories and links
\* requests fail; a failed summary gives summary = "", failed categories give
\* no categories, failed links give no links.
C1_GetPageDegradesSubCalls ==
    (call.op = "get_page" /\ call.req.content = "ok") =>
        /\ call.result.kind = "page"
        /\ (call.req.summary # "ok" => call.result.page.summary = <<>>)
        /\ (call.req.categories # "ok" => call.result.page.categories = <<>>)
        /\ (call.req.links # "ok" => call.result.page.links = <<>>)

\* C2: among the public retrieval operations a failed request is raised to
\* the caller only by search and by the content request of get_page, and there
\* it always is; everywhere else it gives an empty or default value.
C2_OnlySearchAndContentRaise ==
    /\ call.result.kind = "raise" =>
          \/ call.op = "search"
          \/ call.op = "get_page" /\ call.req.content \in {"transport", "httperr"}
    /\ (call.op = "search" /\ call.req.api = "transport") =>
          call.result.kind = "raise"
    /\ (call.op = "get_page" /\ call.req.content = "transport") =>
          call.result.kind = "raise"

\* C3: both batch helpers process their items in input order, one at a time,
\* and a failure raised while one item is processed is not propagated: the
\* helper goes on with the remaining items.
C3_BatchHelpersTolerateItemFailures ==
    /\ batch.raisedAt # "item"
    /\ batch.helper = "create_knowledge_base" =>
          /\ Len(batch.log) = batch.i - 1
          /\ \A k \in 1..Len(batch.log) : batch.log[k].topic = batch.items[k]
    /\ (batch.helper = "search_and_summarize" /\ batch.pc # "raised") =>
          /\ Len(batch.out) = batch.i - 1
          /\ \A k \in 1..Len(batch.out) : batch.out[k].title = batch.items[k].title

\* C11: for every title whose content request is answered with the status
\* 404, get_page(title, include_links) returns None and does not raise, for
\* include_links true and false; no further request is made for the title.
C11_NotFoundGivesNone ==
    (call.op = "get_page" /\ call.req.content = "notfound") =>
        /\ call.result = None
        /\ call.req.summary = "unsent"
        /\ call.req.categories = "unsent"
        /\ call.req.links = "unsent"

\* C11 witness: get_page was called directly without links for a title the
\* source reports as missing, and create_knowledge_base, which asks for the
\* links, has not run
C11_Witness ==
    /\ call.op = "get_page"
    /\ call.req.content = "notfound"
    /\ ~call.include_links
    /\ call.result.kind = "none"
    /\ batch.helper = "none"

(***************************************************************************)
(* Claims: the text-cleaning transforms                                    *)
(***************************************************************************)
\* a '<', then one or more characters other than '>', then '>'
HasTagSpan(s) ==
    \E i, j \in 1..Len(s) :
        /\ j >= i + 2
        /\ s[i] = "<"
        /\ s[j] = ">"
        /\ \A k \in (i + 1)..(j - 1) : s[k] # ">"

\* a '[', then one or more digits, then ']'
HasRefMarker(s) ==
    \E i, j \in 1..Len(s) :
        /\ j >= i + 2
        /\ s[i] = "["
        /\ s[j] = "]"
        /\ \A k \in (i + 1)..(j - 1) : IsDigit(s[k])

\* a '[' that directly follows a '[', a digit or a '>'
HasAdjoinedBracket(s) ==
    \E i \in 2..Len(s) :
        /\ s[i] = "["
        /\ s[i - 1] = "[" \/ IsDigit(s[i - 1]) \/ s[i - 1] = ">"

C5_ExtractIsIdempotent ==
    text.stage = "again" => text.again = text.out

\* every '<' of s opens a tag span and every '>' closes one; inTag is -1
\* outside a span and else the number of characters read since its '<'
RECURSIVE AnglesOnlyInTags(_, _)
AnglesOnlyInTags(s, inTag) ==
    IF s = <<>> THEN inTag = -1
    ELSE IF inTag = -1
         THEN /\ Head(s) # ">"
              /\ AnglesOnlyInTags(Tail(s), IF Head(s) = "<" THEN 0 ELSE -1)
         ELSE IF Head(s) = ">"
              THEN inTag >= 1 /\ AnglesOnlyInTags(Tail(s), -1)
              ELSE AnglesOnlyInTags(Tail(s), inTag + 1)

SnippetsOf(c) == {c.result.list[i].snippet : i \in 1..Len(c.result.list)}

C8_LoadMissingGivesEmpty ==
    (ret.op = "load_presentation" /\ ~ret.found) =>
        /\ ret.kind # "raise"
        /\ get_slide_count(prs) = 0

\* C8 as amended: load_presentation of a path that does not exist does not
\* raise and leaves the Presentation as it was, slides included.
C8_LoadMissingKeepsPresentation ==
    [][(ret'.op = "load_presentation" /\ ~ret'.found) =>
          (ret'.kind # "raise" /\ prs' = prs)]_vars

\* C8 witness: a missing path was loaded on a tool that holds slides
C8_Witness ==
    /\ ret.op = "load_presentation"
    /\ ~ret.found
    /\ get_slide_count(prs) > 0

\* C9: for every slide_index outside 0 .. get_slide_count()-1, at or above
\* the count or below minus the count, get_slide_text returns the sentinel
\* "Slide index out of range" and does not raise.
C9_OutOfRangeGivesSentinel ==
    (/\ ret.op = "get_slide_text"
     /\ ret.index >= get_slide_count(prs) \/ ret.index < -get_slide_count(prs)) =>
        /\ ret.kind = "text"
        /\ ret.text = Sentinel

\* C10: get_slide_text on the slide add_content_slide(title, points) appended
\* returns the title and then every point, in order, each a paragraph of its
\* own at level 0.
C10_ContentSlideTextInOrder ==
    (/\ ret.op = "get_slide_text"
     /\ hist.op = "add_content_slide"
     /\ ret.index = get_slide_count(prs) - 1) =>
        /\ ret.kind = "text"
        /\ ret.text =
             Join(<<hist.title>> \o
                  (IF hist.points = <<>> THEN << <<>> >> ELSE hist.points), NL)
        /\ LET paras == prs[Len(prs)].shapes[2].paras
           IN hist.points # <<>> =>
                /\ Len(paras) = Len(hist.points)
                /\ \A i \in 1..Len(paras) :
                      paras[i] = [text |-> hist.points[i], level |-> 0]

\* C10 witness: the text of a content slide with two points, appended after
\* another slide, was read
C10_Witness ==
    /\ ret.op = "get_slide_text"
    /\ hist.op = "add_content_slide"
    /\ ret.index = get_slide_count(prs) - 1
    /\ ret.index >= 1
    /\ Len(hist.points) = 2

(***************************************************************************)
(* Claims: the slide sequence (checked under SpecSlides)                   *)
(***************************************************************************)
\* slide `new` is slide `old` with the shapes `old` had, in their order and with
\* the texts of their paragraphs, and possibly with more shapes, a background
\* or fonts
SlideKept(old, new) ==
    /\ new.layout = old.layout
    /\ Len(new.shapes) >= Len(old.shapes)
    /\ \A j \in 1..Len(old.shapes) :
          /\ new.shapes[j].name = old.shapes[j].name
          /\ Len(new.shapes[j].paras) = Len(old.shapes[j].paras)
          /\ \A n \in 1..Len(old.shapes[j].paras) :
                new.shapes[j].paras[n].text = old.shapes[j].paras[n].text

\* every slide of p is in q at the place it has in p
SlidesKept(p, q) ==
    \/ q = p
    \/ /\ Len(q) >= Len(p)
       /\ \A i \in 1..Len(p) : q[i] = p[i] \/ SlideKept(p[i], q[i])

\* a step of add_title_slide, add_content_slide or add_blank_slide: these and
\* the constructor are the steps that leave ret as NoRet, and the constructor
\* leaves hist as NoHist
AppendsSlide == ret'.op = "none" /\ hist'.op # "none"

\* a step of the constructor, which makes another PowerPointTool
Constructs == ret'.op = "none" /\ hist'.op = "none"

\* the step appends one slide and leaves the slides before it as they were
AppendedLast ==
    /\ get_slide_count(prs') = get_slide_count(prs) + 1
    /\ SubSeq(prs', 1, Len(prs)) = prs

\* C12 as claimed: on one PowerPointTool the slide sequence is append-only:
\* add_title_slide, add_content_slide and add_blank_slide each increase
\* get_slide_count() by exactly 1 and place the new slide last, and no
\* operation of the class, create_new_presentation and load_presentation
\* included, removes or reorders a slide already in the sequence.
C12_SlidesAppendOnly ==
    [][/\ AppendsSlide => AppendedLast
       /\ Constructs \/ SlidesKept(prs, prs')]_vars

\* a step that replaces self.prs: create_new_presentation, and
\* load_presentation of a path that exists
ReplacesPresentation ==
    \/ ret'.op = "create_new_presentation"
    \/ ret'.op = "load_presentation" /\ ret'.found

\* C12 as amended: add_title_slide, add_content_slide and add_blank_slide each
\* increase get_slide_count() by exactly 1 and place the new slide last, the
\* slides before it staying as they were; add_text_box, add_image,
\* format_text, set_slide_background_color, get_slide_count, get_slide_text,
\* extract_all_text, save_presentation and load_presentation of a path that
\* does not exist keep the number and the order of the slides, and change at
\* most the one slide they are given; create_new_presentation replaces the
\* sequence by an empty one and load_presentation of a path that exists
\* replaces it by the slides of the file, whatever slides were held before.
C12_SlidesKeptUnlessReplaced ==
    [][/\ AppendsSlide => AppendedLast
       /\ (Constructs \/ AppendsSlide \/ ReplacesPresentation) \/
             /\ get_slide_count(prs') = get_slide_count(prs)
             /\ SlidesKept(prs, prs')
             /\ Cardinality({i \in 1..Len(prs) : prs'[i] # prs[i]}) <= 1
       /\ ret'.op = "create_new_presentation" => get_slide_count(prs') = 0
       /\ (ret'.op = "load_presentation" /\ ret'.found) =>
             prs' = FileAt(files, ret'.path)]_vars

\* C12 witness: add_text_box was called on the first of two different slides
\* and put a text box there
C12_Witness ==
    /\ ret.op = "add_text_box"
    /\ get_slide_count(prs) = 2
    /\ prs[1].layout # prs[2].layout
    /\ \E j \in 1..Len(prs[1].shapes) : prs[1].shapes[j].name = "textbox"

=============================================================================
